---------------------------- MODULE Spec2Model ----------------------------
(***************************************************************************)
(* A model of ldif.py (python-ldap 2.4.15): LDIFWriter and LDIFParser.     *)
(*                                                                         *)
(* A Python byte string is a sequence of byte values 0..255, so "dn" is    *)
(* <<100, 110>>.  None is the sequence <<-1>>, which is no byte string.    *)
(* A dictionary is a function whose domain is its set of keys.             *)
(***************************************************************************)
EXTENDS Integers, Sequences, FiniteSets, TLC

(***************************************************************************)
(* Bounds of the model.                                                    *)
(***************************************************************************)
MaxValLen == 2      \* longest attribute value of the exhaustive round trip
MaxRecords == 3     \* most records written to one stream
MaxLines == 3       \* most physical lines of an enumerated input stream
MaxFoldLen == 4     \* longest string handed to _fold_line on its own
MaxCols == 4        \* widest column setting of the fold specification
FoldCols == 5       \* a column setting that folds the lines of the records
MaxDnLen == 4       \* the longest string of DnAlphabet given to is_dn

DefaultCols == 76   \* cols=76

(***************************************************************************)
(* Characters the code names.                                              *)
(***************************************************************************)
NUL == 0
TAB == 9
LF == 10
CR == 13
SP == 32
HASH == 35
COLON == 58
LESS == 60
PAD == 61
DASH == 45

None == <<-1>>
DecodeError == <<-2>>    \* binascii.Error raised by base64.decodestring

Min(a, b) == IF a <= b THEN a ELSE b

\* s[i:j] of Python for 0 <= i, with j clipped to len(s)
Slice(s, i, j) == SubSeq(s, i + 1, Min(j, Len(s)))

\* s[i:] of Python
From(s, i) == SubSeq(s, i + 1, Len(s))

RECURSIVE Concat(_)
Concat(ss) == IF ss = <<>> THEN <<>> ELSE Head(ss) \o Concat(Tail(ss))

\* str.lower() in the C locale
LowerChar(c) == IF c >= 65 /\ c <= 90 THEN c + 32 ELSE c
Lower(s) == [i \in 1..Len(s) |-> LowerChar(s[i])]

\* the characters str.strip() and str.lstrip() remove
Whitespace == {TAB, LF, 11, 12, CR, SP}

RECURSIVE LStrip(_)
LStrip(s) ==
    IF s # <<>> /\ Head(s) \in Whitespace THEN LStrip(Tail(s)) ELSE s

RECURSIVE RStrip(_)
RStrip(s) ==
    IF s # <<>> /\ s[Len(s)] \in Whitespace
    THEN RStrip(SubSeq(s, 1, Len(s) - 1)) ELSE s

Strip(s) == RStrip(LStrip(s))

\* s.index(c): the 0-based position of the first c, or -1 (ValueError)
RECURSIVE IndexFrom(_, _, _)
IndexFrom(s, c, i) ==
    IF i > Len(s) THEN -1
    ELSE IF s[i] = c THEN i - 1
    ELSE IndexFrom(s, c, i + 1)

Index(s, c) == IndexFrom(s, c, 1)

\* byte-wise comparison of two strings, as sorted() compares keys
RECURSIVE StrLess(_, _)
StrLess(a, b) ==
    IF b = <<>> THEN FALSE
    ELSE IF a = <<>> THEN TRUE
    ELSE IF Head(a) # Head(b) THEN Head(a) < Head(b)
    ELSE StrLess(Tail(a), Tail(b))

\* sorted() with the comparison turned round: descending order
RECURSIVE SortedDescending(_)
SortedDescending(S) ==
    IF S = {} THEN <<>>
    ELSE LET m == CHOOSE x \in S : \A y \in S \ {x} : StrLess(y, x)
         IN <<m>> \o SortedDescending(S \ {m})

RECURSIVE Sorted(_)
Sorted(S) ==
    IF S = {} THEN <<>>
    ELSE LET m == CHOOSE x \in S : \A y \in S \ {x} : StrLess(x, y)
         IN <<m>> \o Sorted(S \ {m})

\* list_dict(l): the lowercased items of l
list_dict(l) == {Lower(i) : i \in l}

(***************************************************************************)
(* Strings the code names.                                                 *)
(***************************************************************************)
S_dn == <<100, 110>>
S_version == <<118, 101, 114, 115, 105, 111, 110>>
S_changetype == <<99, 104, 97, 110, 103, 101, 116, 121, 112, 101>>
S_add == <<97, 100, 100>>
S_delete == <<100, 101, 108, 101, 116, 101>>
S_modify == <<109, 111, 100, 105, 102, 121>>
S_modrdn == <<109, 111, 100, 114, 100, 110>>
S_replace == <<114, 101, 112, 108, 97, 99, 101>>

CHANGE_TYPES == {S_add, S_delete, S_modify, S_modrdn}

\* MOD_OP_STR[op], None for a KeyError
MOD_OP_STR(op) ==
    IF op = 0 THEN S_add
    ELSE IF op = 1 THEN S_delete
    ELSE IF op = 2 THEN S_replace
    ELSE None


(***************************************************************************)
(* base64, as the binascii module computes it.                             *)
(***************************************************************************)
\* table_b2a_base64
B64Char(n) ==
    IF n < 26 THEN 65 + n
    ELSE IF n < 52 THEN 97 + (n - 26)
    ELSE IF n < 62 THEN 48 + (n - 52)
    ELSE IF n = 62 THEN 43
    ELSE 47

\* table_a2b_base64, -1 for a character outside the alphabet; the pad is 0
B64Val(c) ==
    IF c >= 65 /\ c <= 90 THEN c - 65
    ELSE IF c >= 97 /\ c <= 122 THEN c - 97 + 26
    ELSE IF c >= 48 /\ c <= 57 THEN c - 48 + 52
    ELSE IF c = 43 THEN 62
    ELSE IF c = 47 THEN 63
    ELSE IF c = PAD THEN 0
    ELSE -1

\* base64.encodestring(v).replace('\n', ''): the line breaks encodestring puts
\* after every 57 input bytes are removed again, three bytes make four characters
RECURSIVE B64Encode(_)
B64Encode(v) ==
    IF Len(v) = 0 THEN <<>>
    ELSE IF Len(v) = 1 THEN
        <<B64Char(v[1] \div 4), B64Char((v[1] % 4) * 16), PAD, PAD>>
    ELSE IF Len(v) = 2 THEN
        <<B64Char(v[1] \div 4), B64Char((v[1] % 4) * 16 + v[2] \div 16),
          B64Char((v[2] % 16) * 4), PAD>>
    ELSE
        <<B64Char(v[1] \div 4), B64Char((v[1] % 4) * 16 + v[2] \div 16),
          B64Char((v[2] % 16) * 4 + v[3] \div 64), B64Char(v[3] % 64)>>
        \o B64Encode(From(v, 3))

\* binascii_find_valid(s, 1): the next character of the alphabet after s[i]
RECURSIVE NextValid(_, _)
NextValid(s, i) ==
    IF i > Len(s) THEN -1
    ELSE IF s[i] <= 127 /\ B64Val(s[i]) # -1 THEN s[i]
    ELSE NextValid(s, i + 1)

Pow2(n) == IF n = 0 THEN 1 ELSE IF n = 2 THEN 4 ELSE IF n = 4 THEN 16 ELSE 64

\* binascii.a2b_base64: characters outside the alphabet are skipped, a pad
\* that closes a quad ends the data, left-over bits are "Incorrect padding"
RECURSIVE A2B(_, _, _, _, _)
A2B(s, i, quad_pos, leftchar, leftbits) ==
    IF i > Len(s) THEN (IF leftbits # 0 THEN DecodeError ELSE <<>>)
    ELSE LET c == s[i] IN
      IF c > 127 \/ c = CR \/ c = LF \/ c = SP
      THEN A2B(s, i + 1, quad_pos, leftchar, leftbits)
      ELSE IF c = PAD THEN
        (IF quad_pos < 2 \/ (quad_pos = 2 /\ NextValid(s, i + 1) # PAD)
         THEN A2B(s, i + 1, quad_pos, leftchar, leftbits)
         ELSE <<>>)
      ELSE IF B64Val(c) = -1
      THEN A2B(s, i + 1, quad_pos, leftchar, leftbits)
      ELSE LET acc == leftchar * 64 + B64Val(c)
               bits == leftbits + 6
           IN IF bits >= 8
              THEN LET rest == A2B(s, i + 1, (quad_pos + 1) % 4,
                                   acc % Pow2(bits - 8), bits - 8)
                   IN IF rest = DecodeError THEN DecodeError
                      ELSE <<(acc \div Pow2(bits - 8)) % 256>> \o rest
              ELSE A2B(s, i + 1, (quad_pos + 1) % 4, acc, bits)

\* base64.decodestring(s)
B64Decode(s) == A2B(s, 1, 0, 0, 0)

(***************************************************************************)
(* LDIFWriter.  w is the writer's configuration: w.base64_attrs is         *)
(* list_dict(base64_attrs), w.cols the fold width; line_sep is '\n'.       *)
(***************************************************************************)
line_sep == <<LF>>

\* the first alternative of SAFE_STRING_PATTERN: ^(\000|\n|\r| |:|<)
UnsafeInit == {NUL, LF, CR, SP, COLON, LESS}

\* the second alternative: [\000\n\r\200-\377]+
UnsafeChar(c) == c = NUL \/ c = LF \/ c = CR \/ (c >= 128 /\ c <= 255)

\* $ of a Python pattern: the end of the string, or just before a final newline
AtDollar(s, j) == j = Len(s) \/ (j = Len(s) - 1 /\ s[Len(s)] = LF)

\* the third alternative, tried at 0-based position i: [ ]+$
RECURSIVE SpacesToDollar(_, _)
SpacesToDollar(s, i) ==
    /\ i < Len(s)
    /\ s[i + 1] = SP
    /\ (AtDollar(s, i + 1) \/ SpacesToDollar(s, i + 1))

\* safe_string_re.search(s) is not None: the pattern is tried at every position
RECURSIVE SafeStringSearch(_, _)
SafeStringSearch(s, i) ==
    IF i >= Len(s) THEN FALSE
    ELSE \/ (i = 0 /\ s[1] \in UnsafeInit)
         \/ UnsafeChar(s[i + 1])
         \/ SpacesToDollar(s, i)
         \/ SafeStringSearch(s, i + 1)

\* _needs_base64_encoding without attr_type.lower()
NeedsBase64CaseSensitive(w, attr_type, attr_value) ==
    attr_type \in w.base64_attrs \/ SafeStringSearch(attr_value, 0)

_needs_base64_encoding(w, attr_type, attr_value) ==
    Lower(attr_type) \in w.base64_attrs \/ SafeStringSearch(attr_value, 0)

\* the while loop of _fold_line, from pos on (cols >= 2; with cols = 1 the
\* loop does not advance)
RECURSIVE FoldRest(_, _, _)
FoldRest(cols, line, pos) ==
    IF pos < Len(line)
    THEN LET end == Min(Len(line), pos + cols - 1)
         IN <<SP>> \o Slice(line, pos, end) \o line_sep
            \o FoldRest(cols, line, end)
    ELSE <<>>

\* what _fold_line(line) writes
_fold_line(w, line) ==
    IF Len(line) <= w.cols
    THEN line \o line_sep
    ELSE Slice(line, 0, w.cols) \o line_sep \o FoldRest(w.cols, line, w.cols)

\* what _unparse_attr(attr_type, attr_value) writes
_unparse_attr(w, attr_type, attr_value) ==
    IF _needs_base64_encoding(w, attr_type, attr_value)
    THEN _fold_line(w, attr_type \o <<COLON, COLON, SP>> \o B64Encode(attr_value))
    ELSE _fold_line(w, attr_type \o <<COLON, SP>> \o attr_value)

\* what _unparse_entry_record(entry) writes
_unparse_entry_record(w, entry) ==
    LET keys == Sorted(DOMAIN entry)
        OfType(t) ==
            Concat([j \in 1..Len(entry[t]) |-> _unparse_attr(w, t, entry[t][j])])
    IN Concat([i \in 1..Len(keys) |-> OfType(keys[i])])

\* the body of the for loop of _unparse_change_record for the items from the
\* i-th on: what is written, and whether an exception ended the loop
RECURSIVE UnparseMods(_, _, _, _)
UnparseMods(w, modlist, mod_len, i) ==
    IF i > Len(modlist) THEN [out |-> <<>>, err |-> FALSE]
    ELSE
      LET mod == modlist[i]
          mod_type == IF mod_len = 2 THEN mod[1] ELSE mod[2]
          mod_vals == IF mod_len = 2 THEN mod[2] ELSE mod[3]
          op_line ==
              IF mod_len = 3
              THEN _unparse_attr(w, MOD_OP_STR(mod[1]), mod_type) ELSE <<>>
          val_lines ==
              IF mod_vals # <<>>                 \* if mod_vals:
              THEN Concat([j \in 1..Len(mod_vals) |->
                              _unparse_attr(w, mod_type, mod_vals[j])])
              ELSE <<>>
          sep_line == IF mod_len = 3 THEN <<DASH>> \o line_sep ELSE <<>>
          rest == UnparseMods(w, modlist, mod_len, i + 1)
      IN
        IF Len(mod) # mod_len                     \* the tuple does not unpack
        THEN [out |-> <<>>, err |-> TRUE]
        ELSE IF mod_len = 3 /\ MOD_OP_STR(mod[1]) = None       \* KeyError
        THEN [out |-> <<>>, err |-> TRUE]
        ELSE [out |-> op_line \o val_lines \o sep_line \o rest.out,
              err |-> rest.err]

\* what _unparse_change_record(modlist) writes, and whether it raises
_unparse_change_record(w, modlist) ==
    IF modlist = <<>> THEN [out |-> <<>>, err |-> TRUE]    \* modlist[0]
    ELSE
      LET mod_len == Len(modlist[1])
          changetype == IF mod_len = 2 THEN S_add ELSE S_modify
          mods == UnparseMods(w, modlist, mod_len, 1)
      IN IF mod_len # 2 /\ mod_len # 3
         THEN [out |-> <<>>, err |-> TRUE]
         ELSE [out |-> _unparse_attr(w, S_changetype, changetype) \o mods.out,
               err |-> mods.err]

\* what unparse(dn, record) writes, and whether it raises.  record.kind is
\* the Python type of the argument: "dict", "list" or anything else
unparse(w, dn, record) ==
    LET dn_line == _unparse_attr(w, S_dn, dn)
        body == IF record.kind = "dict"
                THEN [out |-> _unparse_entry_record(w, record.entry),
                      err |-> FALSE]
                ELSE IF record.kind = "list"
                THEN _unparse_change_record(w, record.modlist)
                ELSE [out |-> <<>>, err |-> TRUE]
    IN IF body.err
       THEN [out |-> dn_line \o body.out, err |-> TRUE]
       ELSE [out |-> dn_line \o body.out \o line_sep, err |-> FALSE]

(***************************************************************************)
(* is_dn.  dn_regex is anchored at both ends and is_dn wants the match to  *)
(* be all of s, so is_dn(s) says that s is in the language of dn_pattern.  *)
(* Each ...Ends(s, i) is the set of positions at which a match of the      *)
(* sub-pattern that starts after the first i characters of s can end.      *)
(***************************************************************************)
\* \w of a byte pattern compiled without flags
WordChar(c) ==
    \/ c >= 48 /\ c <= 57
    \/ c >= 65 /\ c <= 90
    \/ c >= 97 /\ c <= 122
    \/ c = 95

\* attrtype_pattern [\w;.-]+(;[\w_-]+)* : the optional groups add no string,
\* ';' and [\w_-] being in the first class
AttrTypeEnds(s, i) ==
    {j \in (i + 1)..Len(s) :
        \A k \in (i + 1)..j : WordChar(s[k]) \/ s[k] \in {59, 46, 45}}

\* [ ]*
SpacesEnds(s, i) == {j \in i..Len(s) : \A k \in (i + 1)..j : s[k] = SP}

\* attrvalue_pattern (([^,]|\\,)+|".*?") : a non-empty run in which a backslash
\* precedes every comma, or a quoted run without a newline
AttrValueEnds(s, i) ==
    {j \in (i + 1)..Len(s) :
        \/ \A k \in (i + 1)..j :
              s[k] = 44 => (k - 1 >= i + 1 /\ s[k - 1] = 92)
        \/ /\ j >= i + 2
           /\ s[i + 1] = 34
           /\ s[j] = 34
           /\ \A k \in (i + 2)..(j - 1) : s[k] # LF}

\* [ ]* c [ ]*
SeparatorEnds(s, i, c) ==
    UNION {SpacesEnds(s, a + 1) : a \in {b \in SpacesEnds(s, i) : b < Len(s) /\ s[b + 1] = c}}

\* attrtypeandvalue_pattern
AttrTypeAndValueEnds(s, i) ==
    UNION {AttrValueEnds(s, b) :
              b \in UNION {SeparatorEnds(s, t, 61) : t \in AttrTypeEnds(s, i)}}

\* ([ ]*\+[ ]* attrtypeandvalue)* from any position of P
RECURSIVE PlusStar(_, _)
PlusStar(s, P) ==
    IF P = {} THEN {}
    ELSE P \cup PlusStar(s,
            UNION {AttrTypeAndValueEnds(s, b) :
                      b \in UNION {SeparatorEnds(s, p, 43) : p \in P}})

\* rdn_pattern
RdnEnds(s, i) ==
    UNION {SpacesEnds(s, p) : p \in PlusStar(s, AttrTypeAndValueEnds(s, i))}

\* ([ ]*,[ ]* rdn)* from any position of P
RECURSIVE CommaStar(_, _)
CommaStar(s, P) ==
    IF P = {} THEN {}
    ELSE P \cup CommaStar(s,
            UNION {RdnEnds(s, b) :
                      b \in UNION {SeparatorEnds(s, p, 44) : p \in P}})

\* dn_pattern
DnEnds(s, i) == UNION {SpacesEnds(s, p) : p \in CommaStar(s, RdnEnds(s, i))}

\* is_dn without the comparison of rm.group(0) with s and without the '$':
\* some prefix of s is a DN
IsDnPrefix(s) == s = <<>> \/ DnEnds(s, 0) # {}

is_dn(s) == s = <<>> \/ Len(s) \in DnEnds(s, 0)

(***************************************************************************)
(* LDIFParser.  p is the parser's configuration: p.max_entries,            *)
(* p.process_url_schemes and p.ignored_attr_types (both after list_dict).  *)
(* The input file is the sequence of bytes not yet read.                   *)
(***************************************************************************)
FetchError == <<-3>>     \* IOError raised by urllib.urlopen

\* input_file.readline(): the bytes up to and including the next newline
readline(input) ==
    LET i == Index(input, LF)
    IN IF i = -1 THEN [line |-> input, rest |-> <<>>]
       ELSE [line |-> Slice(input, 0, i + 1), rest |-> From(input, i + 1)]

_strip_line_sep(s) ==
    IF Len(s) >= 2 /\ From(s, Len(s) - 2) = <<CR, LF>>
    THEN Slice(s, 0, Len(s) - 2)
    ELSE IF Len(s) >= 1 /\ s[Len(s)] = LF
    THEN Slice(s, 0, Len(s) - 1)
    ELSE s

\* the while loop of _unfold_line appending self._line, not self._line[1:]
RECURSIVE UnfoldMoreKeepsSpace(_, _, _)
UnfoldMoreKeepsSpace(unfolded, line, input) ==
    IF line # <<>> /\ line[1] = SP
    THEN LET r == readline(input)
         IN UnfoldMoreKeepsSpace(unfolded \o _strip_line_sep(line), r.line, r.rest)
    ELSE [unfolded |-> unfolded, line |-> line, input |-> input]

\* the while loop of _unfold_line
RECURSIVE UnfoldMore(_, _, _)
UnfoldMore(unfolded, line, input) ==
    IF line # <<>> /\ line[1] = SP
    THEN LET r == readline(input)
         IN UnfoldMore(unfolded \o _strip_line_sep(Tail(line)), r.line, r.rest)
    ELSE [unfolded |-> unfolded, line |-> line, input |-> input]

\* _unfold_line(): the logical line, the new self._line, the file after it
_unfold_line(line, input) ==
    LET r == readline(input)
    IN UnfoldMore(_strip_line_sep(line), r.line, r.rest)

\* the while loop of _parse_attr that skips comment lines
RECURSIVE SkipComments(_)
SkipComments(u) ==
    IF u.unfolded # <<>> /\ u.unfolded[1] = HASH
    THEN SkipComments(_unfold_line(u.line, u.input))
    ELSE u

SchemeChar(c) ==
    \/ c >= 48 /\ c <= 57
    \/ c >= 65 /\ c <= 90
    \/ c >= 97 /\ c <= 122
    \/ c \in {43, 45, 46}

\* urlparse.urlparse(url)[0]
UrlScheme(url) ==
    LET i == Index(url, COLON)
    IN IF i > 0 /\ \A k \in 1..i : SchemeChar(url[k])
       THEN Lower(Slice(url, 0, i)) ELSE <<>>

\* _parse_attr without the try/except round unfolded_line.index(':'): the
\* ValueError of a line without a colon leaves parse
ParseAttrColonRequired(p, line, input, fetched) ==
    LET u == SkipComments(_unfold_line(line, input))
        unfolded_line == u.unfolded
        colon_pos == Index(unfolded_line, COLON)
        value_spec == Slice(unfolded_line, colon_pos, colon_pos + 2)
        rest == From(unfolded_line, colon_pos + 2)
        url == Strip(rest)
        Result(t, v) ==
            [attr_type |-> t, attr_value |-> v, line |-> u.line, input |-> u.input]
    IN IF unfolded_line = <<>> \/ unfolded_line \in {<<LF>>, <<CR, LF>>}
       THEN Result(None, None)
       ELSE IF colon_pos = -1
       THEN Result(None, DecodeError)
       ELSE IF value_spec = <<COLON, COLON>>
       THEN Result(Slice(unfolded_line, 0, colon_pos), B64Decode(rest))
       ELSE IF value_spec = <<COLON, LESS>>
       THEN Result(Slice(unfolded_line, 0, colon_pos),
                   IF p.process_url_schemes # {}
                      /\ UrlScheme(url) \in p.process_url_schemes
                   THEN fetched ELSE None)
       ELSE IF value_spec = <<COLON, CR, LF>> \/ value_spec = <<LF>>
       THEN Result(Slice(unfolded_line, 0, colon_pos), <<>>)
       ELSE Result(Slice(unfolded_line, 0, colon_pos), LStrip(rest))

\* _parse_attr(): attr_type, attr_value, the new self._line and the file after
\* it; fetched is what urllib.urlopen(url).read() gives if it is called
_parse_attr(p, line, input, fetched) ==
    LET u == SkipComments(_unfold_line(line, input))
        unfolded_line == u.unfolded
        colon_pos == Index(unfolded_line, COLON)
        value_spec == Slice(unfolded_line, colon_pos, colon_pos + 2)
        rest == From(unfolded_line, colon_pos + 2)
        url == Strip(rest)
        Result(t, v) ==
            [attr_type |-> t, attr_value |-> v, line |-> u.line, input |-> u.input]
    IN IF unfolded_line = <<>> \/ unfolded_line \in {<<LF>>, <<CR, LF>>}
       THEN Result(None, None)
       ELSE IF colon_pos = -1
       THEN Result(None, None)
       ELSE IF value_spec = <<COLON, COLON>>
       THEN Result(Slice(unfolded_line, 0, colon_pos), B64Decode(rest))
       ELSE IF value_spec = <<COLON, LESS>>
       THEN Result(Slice(unfolded_line, 0, colon_pos),
                   IF p.process_url_schemes # {}
                      /\ UrlScheme(url) \in p.process_url_schemes
                   THEN fetched ELSE None)
       ELSE IF value_spec = <<COLON, CR, LF>> \/ value_spec = <<LF>>
       THEN Result(Slice(unfolded_line, 0, colon_pos), <<>>)
       ELSE Result(Slice(unfolded_line, 0, colon_pos), LStrip(rest))

(***************************************************************************)
(* The inputs of the model.                                                *)
(***************************************************************************)
S_cn == <<99, 110>>    \* 'cn'
S_CN == <<67, 78>>    \* 'CN'
S_sn == <<115, 110>>    \* 'sn'
S_x == <<120>>    \* 'x'
S_y == <<121>>    \* 'y'
S_sp_y == <<32, 121>>    \* ' y'
S_file == <<102, 105, 108, 101>>    \* 'file'
S_http == <<72, 84, 84, 80>>    \* 'HTTP'
DN_a == <<99, 110, 61, 97>>    \* 'cn=a'
DN_b == <<99, 110, 61, 98>>    \* 'cn=b'
DN_long == <<99, 110, 61, 97, 32, 98, 44, 100, 99, 61, 99>>    \* 'cn=a b,dc=c'
DN_trail == <<99, 110, 61, 97, 32>>    \* 'cn=a '

\* physical lines of an LDIF input
L_dn_a == <<100, 110, 58, 32, 99, 110, 61, 97, 10>>    \* 'dn: cn=a\n'
L_cn == <<99, 110, 58, 32, 120, 10>>    \* 'cn: x\n'
L_CN == <<67, 78, 58, 32, 120, 10>>    \* 'CN: x\n'
L_sn_b64 == <<115, 110, 58, 58, 32, 101, 81, 61, 61, 10>>    \* 'sn:: eQ==\n'
L_blank == <<10>>    \* '\n'
L_junk == <<106, 117, 110, 107, 10>>    \* 'junk\n'
L_ct_delete == <<99, 104, 97, 110, 103, 101, 116, 121, 112, 101, 58, 32, 100, 101, 108, 101, 116, 101, 10>>    \* 'changetype: delete\n'
L_ct_bogus == <<99, 104, 97, 110, 103, 101, 116, 121, 112, 101, 58, 32, 98, 111, 103, 117, 115, 10>>    \* 'changetype: bogus\n'
L_version == <<118, 101, 114, 115, 105, 111, 110, 58, 32, 49, 10>>    \* 'version: 1\n'
L_url == <<112, 58, 60, 32, 102, 105, 108, 101, 58, 47, 47, 47, 120, 10>>    \* 'p:< file:///x\n'
L_comment == <<35, 32, 99, 10>>    \* '# c\n'
L_cont == <<32, 122, 10>>    \* ' z\n'
L_dn_bad == <<100, 110, 58, 32, 61, 98, 97, 100, 10>>    \* 'dn: =bad\n'
L_nospace == <<99, 110, 58, 118, 10>>    \* 'cn:v\n'


LineMenu ==
    {L_dn_a, L_cn, L_CN, L_sn_b64, L_blank, L_junk, L_ct_delete, L_ct_bogus,
     L_version, L_url, L_comment, L_cont, L_dn_bad, L_nospace}

\* the strings of at most n characters of the alphabet A
RECURSIVE Strings(_, _)
Strings(A, n) ==
    IF n = 0 THEN {<<>>}
    ELSE LET S == Strings(A, n - 1)
         IN S \cup {Append(t, c) : t \in {u \in S : Len(u) = n - 1}, c \in A}

\* the input streams of at most MaxLines physical lines
LineStreams == {Concat(ls) : ls \in Strings(LineMenu, MaxLines) \ {<<>>}}

\* attribute lines and what they decode to
PlainLines ==
    {[line |-> L_cn, attr_type |-> S_cn, attr_value |-> S_x],
     [line |-> L_sn_b64, attr_type |-> S_sn, attr_value |-> S_y]}

\* a stream of three records
ThreeRecords ==
    L_dn_a \o L_cn \o L_blank \o L_dn_a \o L_sn_b64 \o L_blank \o L_dn_a \o L_CN \o L_blank

\* a record with the attribute line a before and b after a URL line
UrlRecord(a, b) == L_dn_a \o a.line \o L_url \o b.line \o L_blank

FixedStreams ==
    {ThreeRecords} \cup {UrlRecord(a, b) : a \in PlainLines, b \in PlainLines}

EmptyDict == [k \in {} |-> <<>>]

Dict1(k, vs) == [t \in {k} |-> vs]
Dict2(k1, vs1, k2, vs2) == [t \in {k1, k2} |-> IF t = k1 THEN vs1 ELSE vs2]

EntryRecord(e) == [kind |-> "dict", entry |-> e, modlist |-> <<>>]
ChangeRecord(m) == [kind |-> "list", entry |-> EmptyDict, modlist |-> m]
OtherRecord == [kind |-> "other", entry |-> EmptyDict, modlist |-> <<>>]

\* attribute values of the exhaustive round trip
ValAlphabet == {NUL, TAB, LF, SP, COLON, LESS, 97, 255}
AllVals == Strings(ValAlphabet, MaxValLen)

WriterConfigs ==
    {[base64_attrs |-> list_dict(b), cols |-> c] : b \in {{}, {S_CN}}, c \in {FoldCols, DefaultCols}}

DefaultWriter == [base64_attrs |-> list_dict({}), cols |-> DefaultCols]

\* records that unparse accepts
GoodRecords ==
    {[dn |-> DN_a, record |-> EntryRecord(Dict2(S_cn, <<S_x>>, S_sn, <<S_y>>))],
     [dn |-> DN_b, record |-> EntryRecord(Dict1(S_cn, <<S_x, S_sp_y>>))],
     [dn |-> DN_long, record |-> EntryRecord(Dict1(S_CN, <<S_y>>))],
     [dn |-> DN_a, record |-> ChangeRecord(<< <<S_cn, <<S_x>> >> >>)],
     [dn |-> DN_b, record |-> ChangeRecord(<< <<1, S_cn, <<>> >> >>)],
     [dn |-> DN_a, record |-> ChangeRecord(<< <<0, S_cn, <<S_x>> >>, <<2, S_sn, <<S_y>> >> >>)]}

\* records on which unparse raises
BadRecords ==
    {[dn |-> DN_a, record |-> ChangeRecord(<< <<S_cn, <<S_x>> >>, <<0, S_sn, <<S_y>> >> >>)],
     [dn |-> DN_a, record |-> ChangeRecord(<< <<0, S_cn, <<S_x>> >>, <<S_sn, <<S_y>> >> >>)],
     [dn |-> DN_a, record |-> ChangeRecord(<< <<S_cn>> >>)],
     [dn |-> DN_a, record |-> ChangeRecord(<< <<3, S_cn, <<S_x>> >> >>)],
     [dn |-> DN_a, record |-> ChangeRecord(<<>>)],
     [dn |-> DN_a, record |-> OtherRecord]}

ParserConfig(m, ign, sch) ==
    [max_entries |-> m, ignored_attr_types |-> list_dict(ign),
     process_url_schemes |-> list_dict(sch)]

ParserConfigs ==
    {ParserConfig(0, {}, {}), ParserConfig(1, {}, {S_http}),
     ParserConfig(0, {S_CN}, {}), ParserConfig(0, {}, {S_file})}

\* what urllib.urlopen(url).read() can give
FetchResults == {S_x, <<>>, FetchError}

(***************************************************************************)
(* The state.                                                              *)
(***************************************************************************)
VARIABLES
    todo,             \* the (dn, record) pairs the caller has yet to write
    writer,           \* the LDIFWriter's configuration
    output,           \* the bytes written to the output file
    records_written,  \* LDIFWriter.records_written
    wstat,            \* "ok", or "error" once unparse has raised
    written,          \* the (dn, record) pairs unparse has returned from
    parser,           \* the LDIFParser's configuration
    source,           \* the bytes of the input file, read or not
    input,            \* the bytes of the input file not yet read
    line,             \* LDIFParser._line
    records_read,     \* LDIFParser.records_read
    all_records,      \* LDIFRecordList.all_records: the calls of handle
    dn, changetype, entry, attr_type, attr_value,   \* the locals of parse
    pc,               \* where parse is: "new", "start", "loop", "attr", "done", "error"
    error,            \* the exception that ended parse
    resumed,          \* a second parser has been constructed on the same file
    prev_records,     \* all_records of the first parser
    prev_max,         \* max_entries of the first parser
    fold,             \* a call of _fold_line and _unfold_line on their own
    b64,              \* a call of _needs_base64_encoding on its own
    dncall            \* a call of is_dn on its own

vars ==
    <<todo, writer, output, records_written, wstat, written, parser, source,
      input, line, records_read, all_records, dn, changetype, entry, attr_type,
      attr_value, pc, error, resumed, prev_records, prev_max, fold, b64, dncall>>

writer_vars == <<todo, writer, output, records_written, wstat, written>>
parse_vars ==
    <<parser, source, input, line, records_read, all_records, dn, changetype,
      entry, attr_type, attr_value, pc, error, resumed, prev_records, prev_max>>

NoFold == [pc |-> "off"]
NoB64 == [pc |-> "off"]
NoDn == [pc |-> "off"]

\* LDIFWriter.__init__
WriterInit(w) ==
    /\ writer = w
    /\ output = <<>>
    /\ records_written = 0
    /\ wstat = "ok"
    /\ written = <<>>

\* LDIFParser.__init__ and LDIFRecordList.__init__
ParserInit(p) ==
    /\ parser = p
    /\ records_read = 0
    /\ all_records = <<>>
    /\ line = <<>>
    /\ dn = None /\ changetype = None /\ entry = EmptyDict
    /\ attr_type = None /\ attr_value = None
    /\ error = "none"
    /\ resumed = FALSE
    /\ prev_records = <<>>
    /\ prev_max = 0

(***************************************************************************)
(* The writer: one call of unparse per action.                             *)
(***************************************************************************)
\* unparse(dn, record) returns
Unparse ==
    /\ pc = "new" /\ wstat = "ok" /\ todo # <<>>
    /\ LET r == unparse(writer, Head(todo).dn, Head(todo).record)
       IN /\ ~r.err
          /\ output' = output \o r.out
          /\ records_written' = records_written + 1
          /\ written' = Append(written, Head(todo))
    /\ todo' = Tail(todo)
    /\ UNCHANGED <<writer, wstat, parse_vars, fold, b64, dncall>>

\* unparse(dn, record) raises: what it wrote before stays written
UnparseRaises ==
    /\ pc = "new" /\ wstat = "ok" /\ todo # <<>>
    /\ LET r == unparse(writer, Head(todo).dn, Head(todo).record)
       IN /\ r.err
          /\ output' = output \o r.out
    /\ wstat' = "error"
    /\ UNCHANGED <<todo, writer, records_written, written, parse_vars, fold, b64, dncall>>

\* the output file is read back: it becomes the input file of the parser
Reopen ==
    /\ pc = "new"
    /\ todo = <<>> \/ wstat = "error"
    /\ source' = output
    /\ input' = output
    /\ pc' = "start"
    /\ UNCHANGED <<writer_vars, parser, line, records_read, all_records, dn,
                   changetype, entry, attr_type, attr_value, error, resumed,
                   prev_records, prev_max, fold, b64, dncall>>

(***************************************************************************)
(* LDIFParser.parse.                                                       *)
(***************************************************************************)
\* the result a of _parse_attr() is assigned to attr_type, attr_value, or the
\* exception of base64.decodestring or urllib.urlopen leaves parse
TakeAttr(a) ==
    /\ line' = a.line
    /\ input' = a.input
    /\ IF a.attr_value = DecodeError
       THEN pc' = "error" /\ error' = "decode" /\ UNCHANGED <<attr_type, attr_value>>
       ELSE IF a.attr_value = FetchError
       THEN pc' = "error" /\ error' = "fetch" /\ UNCHANGED <<attr_type, attr_value>>
       ELSE /\ pc' = "attr"
            /\ error' = error
            /\ attr_type' = a.attr_type
            /\ attr_value' = a.attr_value

\* the condition of the outer while loop with <= for <
MoreRecordsOffByOne ==
    line # <<>> /\ (parser.max_entries = 0 \/ records_read <= parser.max_entries)

\* the condition of the outer while loop
MoreRecords ==
    line # <<>> /\ (parser.max_entries = 0 \/ records_read < parser.max_entries)

\* self._line = self._input_file.readline()
ParseStart ==
    /\ pc = "start"
    /\ line' = readline(input).line
    /\ input' = readline(input).rest
    /\ pc' = "loop"
    /\ UNCHANGED <<writer_vars, parser, source, records_read, all_records, dn,
                   changetype, entry, attr_type, attr_value, error, resumed,
                   prev_records, prev_max, fold, b64, dncall>>

\* the outer loop is entered: the record is reset and its first line parsed
RecordBegin ==
    /\ pc = "loop"
    /\ MoreRecords
    /\ dn' = None
    /\ changetype' = None
    /\ entry' = EmptyDict
    /\ \E fetched \in FetchResults :
          TakeAttr(_parse_attr(parser, line, input, fetched))
    /\ UNCHANGED <<writer_vars, parser, source, records_read, all_records,
                   resumed, prev_records, prev_max, fold, b64, dncall>>

\* AttrError without the check for a second dn line
AttrErrorSecondDnAccepted ==
    IF attr_type = S_dn
    THEN IF ~is_dn(attr_value) THEN "bad_dn" ELSE "none"
    ELSE IF attr_type = S_version /\ dn = None THEN "none"
    ELSE IF attr_type = S_changetype
    THEN IF dn = None THEN "changetype_before_dn"
         ELSE IF changetype # None THEN "two_changetype"
         ELSE IF attr_value \notin CHANGE_TYPES THEN "bad_changetype"
         ELSE "none"
    ELSE "none"

\* AttrError without the check that a changetype line follows a dn line
AttrErrorChangetypeFirst ==
    IF attr_type = S_dn
    THEN IF dn # None THEN "two_dn"
         ELSE IF ~is_dn(attr_value) THEN "bad_dn"
         ELSE "none"
    ELSE IF attr_type = S_version /\ dn = None THEN "none"
    ELSE IF attr_type = S_changetype
    THEN IF changetype # None THEN "two_changetype"
         ELSE IF attr_value \notin CHANGE_TYPES THEN "bad_changetype"
         ELSE "none"
    ELSE "none"

\* the exception the body of the inner loop raises for the current
\* attr_type and attr_value, "none" if it raises none
AttrError ==
    IF attr_type = S_dn
    THEN IF dn # None THEN "two_dn"
         ELSE IF ~is_dn(attr_value) THEN "bad_dn"
         ELSE "none"
    ELSE IF attr_type = S_version /\ dn = None THEN "none"
    ELSE IF attr_type = S_changetype
    THEN IF dn = None THEN "changetype_before_dn"
         ELSE IF changetype # None THEN "two_changetype"
         ELSE IF attr_value \notin CHANGE_TYPES THEN "bad_changetype"
         ELSE "none"
    ELSE "none"

\* the entry after the last branch of the inner loop's body
EntryWith(e, t, v) ==
    IF t \in DOMAIN e
    THEN [e EXCEPT ![t] = Append(@, v)]
    ELSE [k \in DOMAIN e \cup {t} |-> IF k = t THEN <<v>> ELSE e[k]]

\* StoresAttr with a 'version' line passed over wherever it stands
StoresAttrNoVersion ==
    /\ attr_type # S_dn
    /\ attr_type # S_version
    /\ attr_type # S_changetype
    /\ attr_value # None
    /\ Lower(attr_type) \notin parser.ignored_attr_types

\* StoresAttr without attr_type.lower()
StoresAttrCaseSensitive ==
    /\ attr_type # S_dn
    /\ ~(attr_type = S_version /\ dn = None)
    /\ attr_type # S_changetype
    /\ attr_value # None
    /\ attr_type \notin parser.ignored_attr_types

\* the last branch of the inner loop's body is the one taken: the line is
\* no dn line, no version line before the dn, no changetype line, and its type
\* is not ignored
StoresAttr ==
    /\ attr_type # S_dn
    /\ ~(attr_type = S_version /\ dn = None)
    /\ attr_type # S_changetype
    /\ attr_value # None
    /\ Lower(attr_type) \notin parser.ignored_attr_types

\* one pass of the inner while loop
AttrStep ==
    /\ pc = "attr"
    /\ attr_type # None /\ attr_value # None
    /\ IF AttrError # "none"
       THEN /\ pc' = "error"
            /\ error' = AttrError
            /\ UNCHANGED <<dn, changetype, entry, attr_type, attr_value, line, input>>
       ELSE /\ dn' = IF attr_type = S_dn THEN attr_value ELSE dn
            /\ changetype' =
                  IF attr_type = S_changetype THEN attr_value ELSE changetype
            /\ entry' =
                  IF StoresAttr
                  THEN EntryWith(entry, attr_type, attr_value)
                  ELSE entry
            /\ \E fetched \in FetchResults :
                  TakeAttr(_parse_attr(parser, line, input, fetched))
    /\ UNCHANGED <<writer_vars, parser, source, records_read, all_records,
                   resumed, prev_records, prev_max, fold, b64, dncall>>

\* RecordEnd without "if entry:": handle is called for every record
RecordEndAlways ==
    /\ pc = "attr"
    /\ ~(attr_type # None /\ attr_value # None)
    /\ all_records' = Append(all_records, [dn |-> dn, entry |-> entry])
    /\ records_read' = records_read + 1
    /\ pc' = "loop"
    /\ UNCHANGED <<writer_vars, parser, source, input, line, dn, changetype,
                   entry, attr_type, attr_value, error, resumed, prev_records,
                   prev_max, fold, b64, dncall>>

\* the inner loop is left: handle(dn, entry) if the entry is not empty
RecordEnd ==
    /\ pc = "attr"
    /\ ~(attr_type # None /\ attr_value # None)
    /\ IF DOMAIN entry # {}
       THEN /\ all_records' = Append(all_records, [dn |-> dn, entry |-> entry])
            /\ records_read' = records_read + 1
       ELSE UNCHANGED <<all_records, records_read>>
    /\ pc' = "loop"
    /\ UNCHANGED <<writer_vars, parser, source, input, line, dn, changetype,
                   entry, attr_type, attr_value, error, resumed, prev_records,
                   prev_max, fold, b64, dncall>>

\* the outer loop is left: parse returns
ParseReturn ==
    /\ pc = "loop"
    /\ ~MoreRecords
    /\ pc' = "done"
    /\ UNCHANGED <<writer_vars, parser, source, input, line, records_read,
                   all_records, dn, changetype, entry, attr_type, attr_value,
                   error, resumed, prev_records, prev_max, fold, b64, dncall>>

\* after parse has returned, a fresh LDIFRecordList without max_entries is
\* constructed on the same input file
Resume ==
    /\ pc = "done"
    /\ ~resumed
    /\ resumed' = TRUE
    /\ prev_records' = all_records
    /\ prev_max' = parser.max_entries
    /\ parser' = [parser EXCEPT !.max_entries = 0]
    /\ records_read' = 0
    /\ all_records' = <<>>
    /\ pc' = "start"
    /\ UNCHANGED <<writer_vars, source, input, line, dn, changetype, entry,
                   attr_type, attr_value, error, fold, b64, dncall>>

(***************************************************************************)
(* _fold_line and _unfold_line on their own, the fold loop pass by pass.   *)
(* fold.out is the output file of the writer and then the input file of    *)
(* the parser.                                                             *)
(***************************************************************************)
FoldAlphabet == {97, SP, CR, LF}

\* more than _fold_line writes for any line of the model when its loop advances
FoldOutCap == 3 * (MaxFoldLen + 2)

\* _fold_line up to its loop
FoldStart ==
    /\ fold.pc = "start"
    /\ fold' =
         IF Len(fold.line) <= fold.cols
         THEN [fold EXCEPT !.out = fold.line \o line_sep, !.pc = "written"]
         ELSE [fold EXCEPT !.out = Slice(fold.line, 0, fold.cols) \o line_sep,
                           !.pos = fold.cols, !.pc = "loop"]
    /\ UNCHANGED <<writer_vars, parse_vars, b64, dncall>>

\* FoldLoop with end = min(len(line), pos + cols): a continuation line of
\* cols characters after its space
FoldLoopTooWide ==
    /\ fold.pc = "loop"
    /\ fold.pos < Len(fold.line)
    /\ Len(fold.out) < FoldOutCap
    /\ LET end == Min(Len(fold.line), fold.pos + fold.cols)
       IN fold' = [fold EXCEPT
                     !.out = @ \o <<SP>> \o Slice(fold.line, fold.pos, end) \o line_sep,
                     !.pos = end]
    /\ UNCHANGED <<writer_vars, parse_vars, b64, dncall>>

\* one pass of the while loop of _fold_line
FoldLoop ==
    /\ fold.pc = "loop"
    /\ fold.pos < Len(fold.line)
    /\ Len(fold.out) < FoldOutCap
    /\ LET end == Min(Len(fold.line), fold.pos + fold.cols - 1)
       IN fold' = [fold EXCEPT
                     !.out = @ \o <<SP>> \o Slice(fold.line, fold.pos, end) \o line_sep,
                     !.pos = end]
    /\ UNCHANGED <<writer_vars, parse_vars, b64, dncall>>

\* the while loop of _fold_line is left
FoldReturn ==
    /\ fold.pc = "loop"
    /\ ~(fold.pos < Len(fold.line))
    /\ fold' = [fold EXCEPT !.pc = "written"]
    /\ UNCHANGED <<writer_vars, parse_vars, b64, dncall>>

\* the parser reads the first physical line and calls _unfold_line
Unfold ==
    /\ fold.pc = "written"
    /\ LET r == readline(fold.out)
           u == _unfold_line(r.line, r.rest)
       IN fold' = [fold EXCEPT !.unfolded = u.unfolded, !.next_line = u.line,
                               !.pc = "unfolded"]
    /\ UNCHANGED <<writer_vars, parse_vars, b64, dncall>>

(***************************************************************************)
(* _needs_base64_encoding on its own.                                      *)
(***************************************************************************)
B64Alphabet == {NUL, TAB, LF, CR, SP, COLON, LESS, 97, 127, 128, 255}

NeedsBase64 ==
    /\ b64.pc = "call"
    /\ b64' = [b64 EXCEPT
                 !.result = _needs_base64_encoding(
                               [base64_attrs |-> list_dict(b64.base64_attrs),
                                cols |-> DefaultCols],
                               b64.attr_type, b64.attr_value),
                 !.pc = "returned"]
    /\ UNCHANGED <<writer_vars, parse_vars, fold, dncall>>

(***************************************************************************)
(* is_dn on its own.                                                       *)
(***************************************************************************)
DnAlphabet == {99, 61, 44, 43, SP, 92, 34, 59}     \* c = , + space \ " ;

\* 'cn=A,dc=example,dc=com'
DN_example ==
    <<99, 110, 61, 65, 44, 100, 99, 61, 101, 120, 97, 109, 112, 108, 101, 44,
      100, 99, 61, 99, 111, 109>>
DN_plus == <<99, 110, 61, 65, 43, 115, 110, 61, 66>>             \* 'cn=A+sn=B'
DN_noattr == <<61, 110, 111, 97, 116, 116, 114>>                 \* '=noattr'
\* 'cn=A,,dc=com'
DN_two_commas == <<99, 110, 61, 65, 44, 44, 100, 99, 61, 99, 111, 109>>
DN_quoted == <<99, 61, 34, 44, 34>>                              \* 'c=","'
DN_quoted_lf == <<99, 61, 34, 44, LF, 34>>                       \* 'c=",\n"'
DN_spaced == <<99, SP, 61, SP, 99, SP, 44, SP, 99, 61, 99, SP>>  \* 'c = c , c=c '
DN_option == <<99, 59, 95, 61, 99, 92, 44, 99, LF>>              \* 'c;_=c\,c\n'
DN_bang == <<99, 33, 61, 99>>                                    \* 'c!=c'

DnCases ==
    {DN_example, DN_plus, DN_noattr, DN_two_commas, DN_quoted, DN_quoted_lf,
     DN_spaced, DN_option, DN_bang}

\* is_dn(s) returns
IsDn ==
    /\ dncall.pc = "call"
    /\ dncall' = [dncall EXCEPT !.result = is_dn(dncall.s), !.pc = "returned"]
    /\ UNCHANGED <<writer_vars, parse_vars, fold, b64>>

(***************************************************************************)
(* The specifications.                                                     *)
(***************************************************************************)
RoundTripDns == {<<>>, DN_a, DN_trail}

\* what is written and how it is read back: one entry with every value, every
\* sequence of good records, and a bad record alone or after a good one
Scenarios ==
    {[todo |-> <<[dn |-> d, record |-> EntryRecord(Dict1(S_cn, <<v>>))]>>,
      writer |-> w, max_entries |-> 0] :
        d \in RoundTripDns, v \in AllVals, w \in WriterConfigs}
    \cup
    {[todo |-> t, writer |-> DefaultWriter, max_entries |-> m] :
        t \in Strings(GoodRecords, MaxRecords) \ {<<>>}, m \in 0..(MaxRecords - 1)}
    \cup
    {[todo |-> t, writer |-> w, max_entries |-> 0] :
        t \in {<<b>> : b \in BadRecords} \cup {<<g, b>> : g \in GoodRecords, b \in BadRecords},
        w \in WriterConfigs}

\* records are written to a file, the file is parsed
Init ==
    /\ \E sc \in Scenarios :
          /\ todo = sc.todo
          /\ WriterInit(sc.writer)
          /\ ParserInit(ParserConfig(sc.max_entries, {}, {}))
    /\ source = <<>>
    /\ input = <<>>
    /\ pc = "new"
    /\ fold = NoFold
    /\ b64 = NoB64
    /\ dncall = NoDn

Next ==
    \/ Unparse
    \/ UnparseRaises
    \/ Reopen
    \/ ParseStart
    \/ RecordBegin
    \/ AttrStep
    \/ RecordEnd
    \/ ParseReturn
    \/ Resume

Spec == Init /\ [][Next]_vars

\* an input file of any lines is parsed
InitParse ==
    /\ todo = <<>>
    /\ WriterInit(DefaultWriter)
    /\ \E p \in ParserConfigs : ParserInit(p)
    /\ source \in LineStreams \cup FixedStreams
    /\ input = source
    /\ pc = "start"
    /\ fold = NoFold
    /\ b64 = NoB64
    /\ dncall = NoDn

NextParse ==
    \/ ParseStart
    \/ RecordBegin
    \/ AttrStep
    \/ RecordEnd
    \/ ParseReturn
    \/ Resume

SpecParse == InitParse /\ [][NextParse]_vars

\* a string is folded and unfolded
InitFold ==
    /\ todo = <<>>
    /\ WriterInit(DefaultWriter)
    /\ ParserInit(ParserConfig(0, {}, {}))
    /\ source = <<>>
    /\ input = <<>>
    /\ pc = "off"
    /\ fold \in {[pc |-> "start", line |-> l, cols |-> c, pos |-> 0, out |-> <<>>,
                  unfolded |-> None, next_line |-> None] :
                    l \in Strings(FoldAlphabet, MaxFoldLen), c \in 1..MaxCols}
    /\ b64 = NoB64
    /\ dncall = NoDn

NextFold ==
    \/ FoldStart
    \/ FoldLoop
    \/ FoldReturn
    \/ Unfold

SpecFold == InitFold /\ [][NextFold]_vars

\* the base64 decision is taken for a type and a value
InitB64 ==
    /\ todo = <<>>
    /\ WriterInit(DefaultWriter)
    /\ ParserInit(ParserConfig(0, {}, {}))
    /\ source = <<>>
    /\ input = <<>>
    /\ pc = "off"
    /\ fold = NoFold
    /\ dncall = NoDn
    /\ b64 \in {[pc |-> "call", attr_type |-> t, attr_value |-> v,
                 base64_attrs |-> b, result |-> FALSE] :
                   t \in {S_cn, S_CN, S_sn}, v \in Strings(B64Alphabet, MaxValLen),
                   b \in {{}, {S_CN}}}

NextB64 == NeedsBase64

SpecB64 == InitB64 /\ [][NextB64]_vars

\* is_dn is asked about a string
InitDn ==
    /\ todo = <<>>
    /\ WriterInit(DefaultWriter)
    /\ ParserInit(ParserConfig(0, {}, {}))
    /\ source = <<>>
    /\ input = <<>>
    /\ pc = "off"
    /\ fold = NoFold
    /\ b64 = NoB64
    /\ dncall \in {[pc |-> "call", s |-> s, result |-> FALSE] :
                      s \in Strings(DnAlphabet, MaxDnLen) \cup DnCases}

NextDn == IsDn

SpecDn == InitDn /\ [][NextDn]_vars

(***************************************************************************)
(* The claims.                                                             *)
(***************************************************************************)
\* the record handle is given for a written (dn, entry)
Dispatched(r) == [dn |-> r.dn, entry |-> r.record.entry]

\* one record was written and the file parsed to its end by the first parser
WroteOneAndParsed ==
    /\ pc = "done" /\ ~resumed
    /\ wstat = "ok" /\ todo = <<>>
    /\ Len(written) = 1
    /\ parser.max_entries = 0

\* C1: parsing what unparse(dn, entry) wrote, for a valid dn and an entry whose
\* values are any byte strings, dispatches exactly one record, equal to
\* (dn, entry).
C1_RoundTrip ==
    (/\ WroteOneAndParsed
     /\ written[1].record.kind = "dict"
     /\ is_dn(written[1].dn))
    => all_records = <<Dispatched(written[1])>>

Range(f) == {f[i] : i \in DOMAIN f}

\* the attribute lines of the operation group m of a modify record are in e
GroupIn(m, e) ==
    /\ MOD_OP_STR(m[1]) \in DOMAIN e
    /\ m[2] \in Range(e[MOD_OP_STR(m[1])])
    /\ \A j \in 1..Len(m[3]) : m[2] \in DOMAIN e /\ m[3][j] \in Range(e[m[2]])

\* C2: for a modify change record of n >= 1 operation groups written by
\* unparse(dn, modlist), parse calls handle exactly once, with the record's dn
\* and the attribute lines of all n groups.
C2_WholeChangeRecord ==
    (/\ WroteOneAndParsed
     /\ written[1].record.kind = "list"
     /\ Len(written[1].record.modlist[1]) = 3)
    => /\ Len(all_records) = 1
       /\ all_records[1].dn = written[1].dn
       /\ \A i \in 1..Len(written[1].record.modlist) :
             GroupIn(written[1].record.modlist[i], all_records[1].entry)

\* C3: a record with a URL line whose scheme is not allowed is still dispatched
\* exactly once, with its dn and with the attribute lines before and after the
\* URL line.
C3_UrlAttributeDropped ==
    \A a \in PlainLines, b \in PlainLines :
       (/\ pc = "done" /\ ~resumed
        /\ source = UrlRecord(a, b)
        /\ S_file \notin parser.process_url_schemes
        /\ parser.ignored_attr_types = {})
       => all_records =
            <<[dn |-> DN_a,
               entry |-> EntryWith(Dict1(a.attr_type, <<a.attr_value>>),
                                   b.attr_type, b.attr_value)]>>

\* the first parser was stopped by max_entries before the end of the file
StoppedByMaxEntries ==
    /\ resumed
    /\ prev_max # 0
    /\ Len(prev_records) = prev_max
    /\ Len(prev_records) < Len(written)

\* C4: when parse stops at max_entries no line of a later record has been
\* consumed: a fresh parser on the same file dispatches exactly the remaining
\* records.
C4_RestLeftUnread ==
    (/\ pc = "done"
     /\ StoppedByMaxEntries
     /\ wstat = "ok" /\ todo = <<>>
     /\ \A i \in 1..Len(written) : written[i].record.kind = "dict")
    => prev_records \o all_records = [i \in 1..Len(written) |-> Dispatched(written[i])]

\* the modlist has items of different lengths, or a first item that is neither
\* a pair nor a triple
BadArity(record) ==
    /\ record.kind = "list"
    /\ record.modlist # <<>>
    /\ \/ Len(record.modlist[1]) \notin {2, 3}
       \/ \E i \in 1..Len(record.modlist) :
             Len(record.modlist[i]) # Len(record.modlist[1])

\* C5: unparse(dn, modlist) on a modlist of mixed or wrong arity fails and
\* leaves the output file and records_written as they were.
C5_NothingWrittenOnError ==
    [][(/\ pc = "new" /\ wstat = "ok" /\ todo # <<>>
        /\ BadArity(Head(todo).record))
       => (/\ wstat' = "error"
           /\ output' = output
           /\ records_written' = records_written)]_vars

\* the streams with two dn lines and at most one other line between them,
\* neither a blank line nor a URL line
TwoDnStreams ==
    {L_dn_a \o m \o L_dn_a : m \in (LineMenu \ {L_blank, L_url}) \cup {<<>>}}

\* C6 as claimed: a stream with two dn lines between two blank lines, whatever
\* lies between them, makes parse raise.
C6_TwoDnBetweenBlanks ==
    (source \in TwoDnStreams /\ ~resumed) => pc # "done"

\* once parse has raised, nothing is dispatched any more
ErrorIsFinal == pc = "error" => (pc' = "error" /\ all_records' = all_records)

\* C6: a second dn line read in one run of the attribute loop (which a blank
\* line, the end of the input, a line without a colon and a URL line without
\* a value end) makes parse raise; the record and all later ones are not
\* dispatched.
C6_TwoDnInOneLoop ==
    [][/\ (pc = "attr" /\ attr_type = S_dn /\ attr_value # None /\ dn # None)
          => (pc' = "error" /\ error' = "two_dn" /\ all_records' = all_records)
       /\ ErrorIsFinal]_vars

C6_Witness == pc = "error" /\ error = "two_dn" /\ dn = DN_a

ChangetypeErrors == {"changetype_before_dn", "two_changetype", "bad_changetype"}

\* C7: a changetype line is accepted only if the record's dn is set, no
\* changetype was set before and the value is add, delete, modify or modrdn;
\* otherwise parse raises and dispatches nothing more.
C7_Changetype ==
    [][/\ (pc = "attr" /\ attr_type = S_changetype /\ attr_value # None)
          => IF /\ dn # None
                /\ changetype = None
                /\ attr_value \in {S_add, S_delete, S_modify, S_modrdn}
             THEN changetype' = attr_value /\ error' \notin ChangetypeErrors
             ELSE /\ pc' = "error"
                  /\ error' \in ChangetypeErrors
                  /\ all_records' = all_records
       /\ ErrorIsFinal]_vars

C7_Witness == pc = "error" /\ error = "two_changetype" /\ changetype = S_delete

\* the conditions C8 names, with init the characters a value must not start with
Unsafe(init) ==
    \/ Lower(b64.attr_type) \in {Lower(t) : t \in b64.base64_attrs}
    \/ (b64.attr_value # <<>> /\ b64.attr_value[1] \in init)
    \/ \E i \in 1..Len(b64.attr_value) :
          b64.attr_value[i] \in {NUL, LF, CR} \/ b64.attr_value[i] >= 128
    \/ (b64.attr_value # <<>> /\ b64.attr_value[Len(b64.attr_value)] = SP)

\* C8 as claimed: the value must not start with NUL, LF, CR, space or colon.
C8_WithoutLess ==
    b64.pc = "returned" => (b64.result <=> Unsafe({NUL, LF, CR, SP, COLON}))

\* C8: _needs_base64_encoding is true exactly when the type is in the forced
\* set (case-insensitively), or the value starts with NUL, LF, CR, space, colon
\* or '<', or contains NUL, LF, CR or a byte >= 0x80, or ends with a space.
C8_NeedsBase64 ==
    b64.pc = "returned" => (b64.result <=> Unsafe({NUL, LF, CR, SP, COLON, LESS}))

C8_Witness ==
    /\ b64.pc = "returned"
    /\ b64.attr_value = <<LESS, 97>>
    /\ b64.base64_attrs = {}
    /\ b64.result

\* the number of characters _fold_line has written when a physical line ends:
\* cols, then cols - 1 more for each continuation line, and the whole length
LineEnds(l, cols) ==
    {Len(l)} \cup {i \in 1..Len(l) : i >= cols /\ (i - cols) % (cols - 1) = 0}

\* C9 as claimed: every string folded at a width >= 2 unfolds to itself.
C9_AnyString ==
    (fold.pc = "unfolded" /\ fold.cols >= 2)
    => (fold.unfolded = fold.line /\ fold.next_line = <<>>)

\* C9: a string without a line feed, and without a carriage return where a
\* physical line ends, folded at a width >= 2 unfolds to itself as one
\* logical line.
C9_FoldUnfold ==
    (/\ fold.pc = "unfolded" /\ fold.cols >= 2
     /\ \A i \in 1..Len(fold.line) : fold.line[i] # LF
     /\ \A i \in LineEnds(fold.line, fold.cols) \ {0} : fold.line[i] # CR)
    => (fold.unfolded = fold.line /\ fold.next_line = <<>>)

C9_Witness ==
    /\ fold.pc = "unfolded"
    /\ fold.cols = 2
    /\ Len(fold.line) = 4
    /\ fold.line[1] = CR
    /\ fold.unfolded = fold.line

\* C10: records_read is the number of handle calls, never more than a non-zero
\* max_entries; with max_entries = 1 a file of three records gives one call.
C10_RecordsRead ==
    /\ records_read = Len(all_records)
    /\ parser.max_entries # 0 => records_read <= parser.max_entries
    /\ (/\ pc = "done" /\ ~resumed
        /\ parser.max_entries = 1
        /\ Len(written) = 3)
       => Len(all_records) = 1

C10_Witness ==
    /\ pc = "done" /\ ~resumed
    /\ parser.max_entries = 1
    /\ Len(written) = 3
    /\ records_read = 1
    /\ input # <<>>


(***************************************************************************)
(* C11.  The lines of an entry record, placed by counting: the line of the *)
(* j-th value of key k comes after the lines of every smaller key and      *)
(* after the j - 1 values of k before it.                                  *)
(***************************************************************************)
RECURSIVE ValuesOf(_, _)
ValuesOf(e, K) ==
    IF K = {} THEN 0
    ELSE LET k == CHOOSE x \in K : TRUE
         IN Len(e[k]) + ValuesOf(e, K \ {k})

LinePlace(e, k, j) == ValuesOf(e, {x \in DOMAIN e : StrLess(x, k)}) + j

AttrLinesInOrder(w, e) ==
    LET Pairs == {<<k, j>> : k \in DOMAIN e, j \in 1..ValuesOf(e, DOMAIN e)}
        At(n) == CHOOSE p \in Pairs :
                     p[2] <= Len(e[p[1]]) /\ LinePlace(e, p[1], p[2]) = n
    IN Concat([n \in 1..ValuesOf(e, DOMAIN e) |->
                  _unparse_attr(w, At(n)[1], e[At(n)[1]][At(n)[2]])])

UnparseOfEntry ==
    pc = "new" /\ wstat = "ok" /\ todo # <<>> /\ Head(todo).record.kind = "dict"

\* C11: unparse(dn, entry) of a mapping appends to the output the dn line,
\* then the lines of each attribute type in ascending order of the keys, one
\* line per value in the order of the value list, then one empty line, and
\* adds exactly one to records_written
C11_UnparseEntry ==
    [][UnparseOfEntry =>
          /\ output' = output
                 \o _unparse_attr(writer, S_dn, Head(todo).dn)
                 \o AttrLinesInOrder(writer, Head(todo).record.entry)
                 \o line_sep
          /\ records_written' = records_written + 1]_vars

C11_Witness ==
    /\ records_written = 2
    /\ \E i, j \in 1..2 :
          /\ i # j
          /\ written[i].record = EntryRecord(Dict2(S_cn, <<S_x>>, S_sn, <<S_y>>))
          /\ written[j].record = EntryRecord(Dict1(S_cn, <<S_x, S_sp_y>>))


(***************************************************************************)
(* C12.  The DN grammar, read top down: a string is of a kind if it can be *)
(* cut into the parts the grammar names.                                   *)
(***************************************************************************)
IsSpaces(t) == \A k \in 1..Len(t) : t[k] = SP

\* [A-Za-z0-9_-]
OptionChar(c) ==
    \/ c \in 48..57 \/ c \in 65..90 \/ c \in 97..122
    \/ c = 95 \/ c = 45

\* [A-Za-z0-9;._-]
TypeChar(c) == OptionChar(c) \/ c = 59 \/ c = 46

\* (;[A-Za-z0-9_-]+)*
RECURSIVE IsOptions(_)
IsOptions(t) ==
    \/ t = <<>>
    \/ /\ Len(t) >= 2
       /\ t[1] = 59
       /\ \E n \in 2..Len(t) :
             /\ \A k \in 2..n : OptionChar(t[k])
             /\ IsOptions(From(t, n))

IsAttrType(t) ==
    \E n \in 1..Len(t) :
        /\ \A k \in 1..n : TypeChar(t[k])
        /\ IsOptions(From(t, n))

\* characters other than ',' and pairs '\,'
RECURSIVE IsCommaFree(_)
IsCommaFree(t) ==
    \/ t = <<>>
    \/ t # <<>> /\ t[1] # 44 /\ IsCommaFree(Tail(t))
    \/ Len(t) >= 2 /\ t[1] = 92 /\ t[2] = 44 /\ IsCommaFree(From(t, 2))

IsQuoted(t) ==
    /\ Len(t) >= 2
    /\ t[1] = 34 /\ t[Len(t)] = 34
    /\ \A k \in 2..(Len(t) - 1) : t[k] # LF

IsAttrValue(t) == (t # <<>> /\ IsCommaFree(t)) \/ IsQuoted(t)

\* AttrType '=' AttrValue, spaces allowed on both sides of the '='
IsAttrTypeAndValue(t) ==
    \E e \in 1..Len(t) :
        /\ t[e] = 61
        /\ \E a \in 1..(e - 1), b \in e..(Len(t) - 1) :
              /\ IsAttrType(Slice(t, 0, a))
              /\ IsSpaces(Slice(t, a, e - 1))
              /\ IsSpaces(Slice(t, e, b))
              /\ IsAttrValue(From(t, b))

\* ('+' AttrTypeAndValue)*, spaces allowed round each '+' and at the end
RECURSIVE IsPlusTail(_)
IsPlusTail(t) ==
    \/ IsSpaces(t)
    \/ \E p \in 1..Len(t) :
          /\ t[p] = 43
          /\ IsSpaces(Slice(t, 0, p - 1))
          /\ \E b \in p..Len(t), c \in p..Len(t) :
                /\ b <= c
                /\ IsSpaces(Slice(t, p, b))
                /\ IsAttrTypeAndValue(Slice(t, b, c))
                /\ IsPlusTail(From(t, c))

IsRdn(t) ==
    \E c \in 1..Len(t) :
        IsAttrTypeAndValue(Slice(t, 0, c)) /\ IsPlusTail(From(t, c))

\* (',' RDN)*, spaces allowed round each ',' and at the end
RECURSIVE IsCommaTail(_)
IsCommaTail(t) ==
    \/ IsSpaces(t)
    \/ \E p \in 1..Len(t) :
          /\ t[p] = 44
          /\ IsSpaces(Slice(t, 0, p - 1))
          /\ \E b \in p..Len(t), c \in p..Len(t) :
                /\ b <= c
                /\ IsSpaces(Slice(t, p, b))
                /\ IsRdn(Slice(t, b, c))
                /\ IsCommaTail(From(t, c))

\* RDN (',' RDN)*
IsDnGrammar(t) ==
    \E c \in 1..Len(t) : IsRdn(Slice(t, 0, c)) /\ IsCommaTail(From(t, c))

\* C12: is_dn(s) is true of the empty string and otherwise exactly of the
\* strings that are, from end to end, RDN (',' RDN)* with RDN =
\* AttrTypeAndValue ('+' AttrTypeAndValue)*; 'cn=A,dc=example,dc=com' and
\* 'cn=A+sn=B' are DNs, '=noattr' and 'cn=A,,dc=com' are not
C12_IsDn ==
    dncall.pc = "returned" =>
        /\ dncall.result = (dncall.s = <<>> \/ IsDnGrammar(dncall.s))
        /\ dncall.s \in {DN_example, DN_plus} => dncall.result
        /\ dncall.s \in {DN_noattr, DN_two_commas} => ~dncall.result

C12_Witness ==
    /\ dncall.pc = "returned"
    /\ dncall.s = DN_plus
    /\ dncall.result


(***************************************************************************)
(* C13 and the later claims on parse: the call of _parse_attr that the     *)
(* next step of parse makes, and the logical line it decodes.              *)
(***************************************************************************)
DecodesNext ==
    \/ pc = "loop" /\ MoreRecords
    \/ pc = "attr" /\ attr_type # None /\ attr_value # None /\ AttrError = "none"

NextLogicalLine == SkipComments(_unfold_line(line, input)).unfolded

\* a logical line with a colon that is followed neither by ':' nor by '<'
PlainValueLine(u) ==
    LET c == Index(u, COLON)
    IN c # -1 /\ Slice(u, c, c + 2) \notin {<<COLON, COLON>>, <<COLON, LESS>>}

\* C13: of a logical line with a colon whose first colon starts neither '::'
\* nor ':<', _parse_attr returns as attr_type what is before the first colon
\* and as attr_value all that is after that colon without its leading
\* whitespace, with or without a space after the colon
C13_PlainValue ==
    [][DecodesNext /\ PlainValueLine(NextLogicalLine) =>
          LET u == NextLogicalLine
              c == Index(u, COLON)
          IN /\ attr_type' = Slice(u, 0, c)
             /\ attr_value' = LStrip(From(u, c + 1))]_vars


(***************************************************************************)
(* C14.  What _fold_line has written, without what it added: the first     *)
(* physical line holds up to cols characters of the line and a separator,   *)
(* every later one a space, up to cols - 1 characters and a separator.      *)
(***************************************************************************)
RECURSIVE ContinuationContent(_, _, _)
ContinuationContent(out, width, n) ==
    IF n = 0 \/ out = <<>> THEN <<>>
    ELSE LET k == Min(width, n)
         IN Slice(out, 1, 1 + k)
            \o ContinuationContent(From(out, k + 2), width, n - k)

WrittenContent(out, cols, n) ==
    LET k == Min(cols, n)
    IN Slice(out, 0, k) \o ContinuationContent(From(out, k + 1), cols - 1, n - k)

\* C14: _fold_line terminates for every line and every width >= 1, each pass
\* of its loop taking at least one more character of the line, and when it
\* returns every character of the line has been written once and in order,
\* separators and continuation spaces apart
C14_FoldTerminates ==
    /\ [][(fold.pc = "loop" /\ fold.pos < Len(fold.line))
             => fold'.pos > fold.pos]_vars
    /\ [](fold.pc = "written" =>
             WrittenContent(fold.out, fold.cols, Len(fold.line)) = fold.line)


\* C15: every record given to handle carries a dn that a 'dn' line of that
\* record has set: the dn is never None and always satisfies is_dn, whatever
\* the input stream
C15_DispatchedDn ==
    \A i \in 1..Len(all_records) :
        all_records[i].dn # None /\ is_dn(all_records[i].dn)


(***************************************************************************)
(* C16.  Records made of dn, version, changetype and ignored lines only.   *)
(***************************************************************************)
\* the inner loop of parse is about to be left
RecordEnds == pc = "attr" /\ ~(attr_type # None /\ attr_value # None)

\* the lines that l holds of each kind, as positions of l
LinesOf(ls, l) == {i \in 1..Len(ls) : ls[i] = l}

\* one record of such lines, for a parser that ignores no type and for one
\* that ignores cn
MetaRecords == Strings({L_dn_a, L_version, L_ct_delete}, MaxLines) \ {<<>>}
MetaRecordsIgnoringCn ==
    Strings({L_dn_a, L_version, L_ct_delete, L_cn, L_CN}, MaxLines) \ {<<>>}

\* no 'version' line after the dn line
VersionFirst(ls) ==
    \A i \in LinesOf(ls, L_dn_a), j \in LinesOf(ls, L_version) : j < i

\* one dn line at most, and the changetype line, if any, alone and after it
WellFormed(ls) ==
    /\ Cardinality(LinesOf(ls, L_dn_a)) <= 1
    /\ Cardinality(LinesOf(ls, L_ct_delete)) <= 1
    /\ \A j \in LinesOf(ls, L_ct_delete) : \E i \in LinesOf(ls, L_dn_a) : i < j

\* handle is called, and records_read incremented, when the inner loop is left
\* with a non-empty entry, and at no other step of parse
DispatchIffEntry ==
    /\ RecordEnds =>
          IF DOMAIN entry # {}
          THEN /\ all_records' = Append(all_records, [dn |-> dn, entry |-> entry])
               /\ records_read' = records_read + 1
          ELSE all_records' = all_records /\ records_read' = records_read
    /\ (~RecordEnds /\ pc # "done") =>
          all_records' = all_records /\ records_read' = records_read

NothingDispatched == all_records = <<>> /\ records_read = 0

MetaStreams == {Concat(ls) : ls \in MetaRecords}
MetaStreamsIgnoringCn == {Concat(ls) : ls \in MetaRecordsIgnoringCn}

\* the input is one record of dn, version, changetype and ignored lines
MetaOnly ==
    \/ source \in MetaStreams
    \/ S_cn \in parser.ignored_attr_types /\ source \in MetaStreamsIgnoringCn

\* C16 as claimed: the record is dispatched and counted exactly if its entry
\* is not empty when the inner loop ends; a record of dn, version, changetype
\* and ignored lines only is not dispatched and not counted.
C16_MetaOnly ==
    /\ [][DispatchIffEntry]_vars
    /\ [](MetaOnly => NothingDispatched)

VersionFirstStreams ==
    {Concat(ls) : ls \in {l \in MetaRecordsIgnoringCn : VersionFirst(l)}}

WellFormedStreams ==
    {Concat(ls) : ls \in {l \in MetaRecordsIgnoringCn : WellFormed(l)}}

\* C16: the record is dispatched and counted exactly if its entry is not
\* empty when the inner loop ends; a record of version lines, then a dn line,
\* then changetype and ignored lines is not dispatched and not counted, and
\* raises no error if it has one dn line at most and one changetype line at
\* most, after the dn line.
C16_EmptyEntryDropped ==
    /\ [][DispatchIffEntry]_vars
    /\ []((MetaOnly /\ source \in VersionFirstStreams) =>
             /\ NothingDispatched
             /\ source \in WellFormedStreams => pc # "error")

C16_Witness ==
    /\ source = L_version \o L_dn_a \o L_ct_delete
    /\ pc = "done" /\ ~resumed
    /\ all_records = <<>>
    /\ records_read = 0


(***************************************************************************)
(* C17.  Logical lines without a colon.                                    *)
(***************************************************************************)
\* a logical line that is neither empty nor a comment and holds no colon
Colonless(u) == u # <<>> /\ u[1] # HASH /\ Index(u, COLON) = -1

\* the record handle gets for the lines 'cn: x' under the dn d
CnRecord(d) == [dn |-> d, entry |-> Dict1(S_cn, <<S_x>>)]

\* parse has returned from a file read from its start to its end with no
\* type ignored
ParsedAll ==
    /\ pc = "done" /\ ~resumed
    /\ parser.max_entries = 0
    /\ parser.ignored_attr_types = {}

\* what a blank line in the place of 'junk' gives
AsAfterBlank ==
    /\ source = L_dn_a \o L_cn \o L_junk => all_records = <<CnRecord(DN_a)>>
    /\ source = L_cn \o L_junk \o L_cn
          => all_records = <<CnRecord(None), CnRecord(None)>>
    /\ source = L_dn_a \o L_junk \o L_cn => all_records = <<CnRecord(None)>>
    /\ source = L_dn_a \o L_junk \o L_dn_a => all_records = <<>>
    /\ source = L_junk => all_records = <<>>

\* the steps of parse at a line without a colon, at the end of the inner loop
\* and at the start of the next record
ColonlessAsBlank ==
    /\ (DecodesNext /\ Colonless(NextLogicalLine)) =>
          (/\ pc' = "attr" /\ error' = "none"
           /\ attr_type' = None /\ attr_value' = None)
    /\ DispatchIffEntry
    /\ (pc = "loop" /\ MoreRecords) =>
          (dn' = None /\ changetype' = None /\ entry' = EmptyDict)

\* C17: a logical line that is neither blank nor a comment and has no colon
\* ends the record as a blank line does: _parse_attr returns (None, None) and
\* no error is raised, the attributes read so far are dispatched if there are
\* any, and the lines after it are read as a new record that starts without
\* dn and without changetype
C17_ColonlessEndsRecord ==
    /\ [][ColonlessAsBlank]_vars
    /\ [](source = L_dn_a \o L_junk \o L_dn_a => pc # "error")
    /\ [](ParsedAll => AsAfterBlank)
    /\ []((source = L_dn_a \o L_junk \o L_ct_delete /\ pc = "error")
             => error = "changetype_before_dn")

C17_Witness ==
    /\ ParsedAll
    /\ source = L_dn_a \o L_cn \o L_junk
    /\ all_records = <<CnRecord(DN_a)>>


(***************************************************************************)
(* C18.  'version' lines.                                                  *)
(***************************************************************************)
S_one == <<49>>    \* '1'

\* the body of the inner loop is about to run for a 'version' line
AtVersionLine == pc = "attr" /\ attr_type = S_version /\ attr_value # None

\* a 'version' line raises nothing and changes neither dn nor changetype; it
\* leaves the entry alone while dn is unset and is appended to the values of
\* the key 'version' once dn is set
VersionLineStep ==
    AtVersionLine =>
        /\ dn' = dn /\ changetype' = changetype
        /\ pc' = "error" => error' \in {"decode", "fetch"}
        /\ entry' = IF dn = None THEN entry
                    ELSE EntryWith(entry, S_version, attr_value)

VersionExamples ==
    /\ source = L_cn \o L_blank \o L_version => all_records = <<CnRecord(None)>>
    /\ source = L_version \o L_dn_a \o L_cn => all_records = <<CnRecord(DN_a)>>
    /\ source = L_dn_a \o L_version
          => all_records = <<[dn |-> DN_a, entry |-> Dict1(S_version, <<S_one>>)]>>

\* C18: a 'version' line read while the dn of the current record is unset is
\* passed over, in the first record and in every later one: no error, and it
\* is in no dispatched entry; a 'version' line read after the dn of the record
\* is set is stored in the entry under the key 'version'
C18_VersionLine ==
    /\ [][VersionLineStep]_vars
    /\ [](S_version \in DOMAIN entry => dn # None)
    /\ [](\A i \in 1..Len(all_records) :
             S_version \in DOMAIN all_records[i].entry => all_records[i].dn # None)
    /\ [](ParsedAll => VersionExamples)

C18_Witness ==
    /\ ParsedAll
    /\ source = L_cn \o L_blank \o L_version
    /\ all_records = <<CnRecord(None)>>


(***************************************************************************)
(* C19.  The physical lines of _fold_line, as it writes them.              *)
(***************************************************************************)
\* the first physical line: up to cols characters from the start of the line,
\* nothing before them, then the separator
FirstLineWritten ==
    fold.pc = "start" =>
        \E n \in 0..fold.cols :
            /\ fold'.out = Slice(fold.line, 0, n) \o line_sep
            /\ n = Len(fold.line) \/ (n = fold.cols /\ fold'.pos = n)

\* a continuation line: one space, then the next 1 to cols - 1 characters of
\* the line, then the separator
ContinuationWritten ==
    (fold.pc = "loop" /\ fold.pos < Len(fold.line)) =>
        \E n \in 1..(fold.cols - 1) :
            /\ fold'.out = fold.out \o <<SP>>
                               \o Slice(fold.line, fold.pos, fold.pos + n)
                               \o line_sep
            /\ fold'.pos = fold.pos + n
            /\ fold.pos + n <= Len(fold.line)

\* C19: every physical line that _fold_line writes at a width W >= 2 has at
\* most W characters before its separator, the first one has no prefix, and
\* every continuation line begins with exactly one added space
C19_PhysicalLines ==
    /\ [][fold.cols >= 2 => (FirstLineWritten /\ ContinuationWritten)]_vars
    /\ []((fold.cols >= 2 /\ fold.pc = "written") =>
             /\ WrittenContent(fold.out, fold.cols, Len(fold.line)) = fold.line
             /\ Len(fold.out) =
                   Len(fold.line) + 1
                   + 2 * Cardinality(LineEnds(fold.line, fold.cols) \ {0, Len(fold.line)}))

C19_Witness ==
    /\ fold.pc = "written"
    /\ fold.cols = 2
    /\ Len(fold.line) = MaxFoldLen
    /\ Len(fold.out) = 3 * MaxFoldLen - 3


(***************************************************************************)
(* C20.  The keys and values of the entry.                                 *)
(***************************************************************************)
\* the body of the inner loop is about to run, without error, for a line that
\* is no dn line, no changetype line and no version line before the dn
AtAttributeLine ==
    /\ pc = "attr" /\ attr_type # None /\ attr_value # None
    /\ attr_type \notin {S_dn, S_changetype}
    /\ ~(attr_type = S_version /\ dn = None)

\* such a line is passed over if its lowercased type is ignored; if not, its
\* value is put after the values its type has so far, under the type as it is
\* written, and no other key changes
AttributeLineStep ==
    AtAttributeLine =>
        IF Lower(attr_type) \in parser.ignored_attr_types
        THEN entry' = entry
        ELSE /\ DOMAIN entry' = DOMAIN entry \cup {attr_type}
             /\ entry'[attr_type] =
                   (IF attr_type \in DOMAIN entry THEN entry[attr_type] ELSE <<>>)
                   \o <<attr_value>>
             /\ \A k \in DOMAIN entry \ {attr_type} : entry'[k] = entry[k]

NoIgnoredKey(e) == \A k \in DOMAIN e : Lower(k) \notin parser.ignored_attr_types

KeyExamples ==
    /\ source = L_dn_a \o L_CN \o L_cn =>
          all_records =
             <<[dn |-> DN_a, entry |-> Dict2(S_CN, <<S_x>>, S_cn, <<S_x>>)]>>
    /\ source = L_cn \o L_nospace \o L_cn =>
          all_records = <<[dn |-> None, entry |-> Dict1(S_cn, <<S_x, <<>>, S_x>>)]>>
    /\ source = L_nospace \o L_cn =>
          all_records = <<[dn |-> None, entry |-> Dict1(S_cn, <<<<>>, S_x>>)]>>

\* C20: no entry given to handle has a key whose lowercased form is in the
\* lowercased ignored_attr_types; every line with a value that is no dn line,
\* no changetype line and no version line before the dn, and whose type is not
\* ignored, is in the entry of the record it is read in, under its type as
\* written, the values of a key in the order of the lines
C20_EntryKeys ==
    /\ [][AttributeLineStep /\ DispatchIffEntry]_vars
    /\ [](NoIgnoredKey(entry) /\ \A i \in 1..Len(all_records) :
                                    NoIgnoredKey(all_records[i].entry))
    /\ [](ParsedAll => KeyExamples)

C20_Witness ==
    /\ pc = "done" /\ ~resumed
    /\ S_cn \in parser.ignored_attr_types
    /\ source = L_CN \o L_sn_b64 \o L_cn
    /\ all_records = <<[dn |-> None, entry |-> Dict1(S_sn, <<S_y>>)]>>

=============================================================================
